---- MODULE Spec2Model ----
(***************************************************************************)
(* Model of simulation/attack_simulator.py: the AttackSimulator registry   *)
(* (start_simulation, stop_simulation, clear_simulations) and the worker   *)
(* thread _run_simulation with its finalizers.  The class takes no lock,   *)
(* so every Python statement that touches shared state is one step and the *)
(* steps of the caller threads and of the workers interleave freely.       *)
(*                                                                         *)
(* A campaign record (the dict built at lines 48-61) is identified by the  *)
(* start call that built it: record o is the dict created by call o.  The  *)
(* two registry dicts map an id to a record (0: no such key).              *)
(*                                                                         *)
(* Model of simulation/network.py: NetworkNode and the NetworkSimulator    *)
(* (create_network, simulate_attack, reset_network), which one caller      *)
(* drives.  create_network advances one loop iteration per step, since its *)
(* second loop ends only when the random draws allow it; the other calls   *)
(* are one step each.  A NetworkNode is identified by the order in which   *)
(* it was built; self.nodes maps a node_id to such an object.              *)
(***************************************************************************)
EXTENDS Integers, Sequences, FiniteSets, TLC

\* ---- bounds ----
MaxStarts == 2      \* start_simulation calls, each on its own caller thread
NumIds == 2         \* distinct values f"sim_{time}_{randint}" can take
MaxStops == 1       \* stop_simulation calls (one caller thread, in sequence)
MaxClears == 1      \* clear_simulations calls
MaxLimit == 1       \* largest configured simulation.max_concurrent_attacks
MaxExecs == 4       \* stages executed by all workers together, where this is bounded
MaxNodes == 4       \* largest num_nodes of a create_network call whose draws are all followed
LargeNetwork == 52  \* num_nodes of the call that builds a large network
MaxCreates == 2     \* create_network calls where the network is attacked
MaxAttacks == 2     \* simulate_attack calls
MaxResets == 2      \* reset_network calls
MaxCalls == 3       \* calls on the NetworkSimulator where the network is attacked
MaxNodeCalls == 3   \* add_vulnerability and record_attack calls on one NetworkNode

Slots == 1..MaxStarts
Ids == 1..NumIds
NoRec == 0

\* ---- inputs ----
\* values of random.random(), in hundredths
RandVals == {0, 50, 99}
\* a "defenses" entry of the config: a list of names, or a value len() rejects
GoodDefenses == [ok |-> TRUE, names |-> <<"firewall", "mfa">>]
BadDefenses == [ok |-> FALSE, names |-> <<>>]
Requests ==
    { [attack_type |-> "phishing", defenses |-> GoodDefenses, callback |-> "raises"],
      [attack_type |-> "phishing", defenses |-> BadDefenses, callback |-> "ok"] }

\* configs of campaigns that run through several stages: the three kinds of
\* attack_type _get_attack_stages tells apart, with and without defenses
NoDefenses == [ok |-> TRUE, names |-> <<>>]
CampaignRequests ==
    { [attack_type |-> t, defenses |-> d, callback |-> "ok"] :
        t \in {"phishing", "malware", "ddos"}, d \in {NoDefenses, GoodDefenses} }
    \cup { [attack_type |-> "phishing", defenses |-> BadDefenses, callback |-> "ok"] }

\* self.attack_duration when the configuration does not set it (line 33)
DefaultAttackDuration == 300

\* self.attack_duration as configured (simulation.attack_duration), in seconds:
\* with 0 every campaign ends at the check that follows its first stage
Durations == {0}
\* readings of elapsed at line 257, in seconds: a short and a long run
ElapsedVals == {1, 301}

\* ---- program constants ----
alert_threshold == 80        \* hundredths
AttackSuccessLimit == 5
DefenseSuccessLimit == 3

base_stages ==
    << [name |-> "reconnaissance", duration |-> 10, success_rate |-> 80],
       [name |-> "weaponization", duration |-> 15, success_rate |-> 70],
       [name |-> "delivery", duration |-> 20, success_rate |-> 60],
       [name |-> "exploitation", duration |-> 25, success_rate |-> 50],
       [name |-> "installation", duration |-> 30, success_rate |-> 40],
       [name |-> "command_control", duration |-> 20, success_rate |-> 30],
       [name |-> "actions_objectives", duration |-> 40, success_rate |-> 20] >>

\* the slice of the phishing branch one stage short
StagesPhishingShort(attack_type) ==
    IF attack_type = "phishing" THEN SubSeq(base_stages, 1, 3)
    ELSE IF attack_type = "malware" THEN SubSeq(base_stages, 1, 6)
    ELSE base_stages

_get_attack_stages(attack_type) ==
    IF attack_type = "phishing" THEN SubSeq(base_stages, 1, 4)
    ELSE IF attack_type = "malware" THEN SubSeq(base_stages, 1, 6)
    ELSE base_stages

Min(a, b) == IF a < b THEN a ELSE b

special_defenses(d) ==
    CASE d = "ids_ips" -> 10
      [] d = "siem" -> 10
      [] d = "edr" -> 15
      [] d = "mfa" -> 20
      [] OTHER -> 0

RECURSIVE SumSpecial(_)
SumSpecial(names) ==
    IF names = <<>> THEN 0
    ELSE special_defenses(Head(names)) + SumSpecial(Tail(names))

\* in hundredths
_calculate_defense_modifier(names) ==
    IF names = <<>> THEN 0
    ELSE Min(90, Min(80, Len(names) * 15) + SumSpecial(names))

\* round(a / t, 2) in hundredths; Python rounds an exact tie to even
Round2(a, t) ==
    LET q == (100 * a) \div t
        r == (100 * a) % t
    IN  IF 2 * r < t THEN q
        ELSE IF 2 * r > t THEN q + 1
        ELSE IF q % 2 = 0 THEN q ELSE q + 1

ZeroMetrics == [attack_success |-> 0, defense_success |-> 0,
                total_events |-> 0, risk_score |-> 0]

Terminal == {"completed", "failed", "stopped"}

VARIABLES
    max_concurrent,       \* self.max_concurrent
    attack_duration,      \* self.attack_duration
    request,              \* the config and callback call s passes, kept in record s
    exec_limit,           \* how many stages the workers may execute in this run
    simulations,          \* self.simulations: id -> record
    running_simulations,  \* self.running_simulations: id -> record
    status, end_time, error, metrics, events,   \* the fields of record o
    pc,                   \* where call s / its worker thread stands
    sim_id,               \* sim_id of call s and of its worker
    simulation,           \* the worker's local "simulation" (line 85)
    stage_idx,            \* position of the worker's for loop
    stage_result,         \* the worker's local "stage_result"
    fin,                  \* local "simulation" of the finalizer (290 / 311)
    exc,                  \* exception caught by the except clause (line 126)
    flag_seen,            \* workers that left the loop at line 94
    cond_seen,            \* workers that left the loop at line 118
    loop_raised,          \* workers whose stage loop (92-121) raised
    visited,              \* names of the stages the worker has executed (line 97)
    elapsed,              \* elapsed as read by the worker's last check (line 257),
                          \* 0 once the worker has moved on
    start_result,         \* what start call s returned or raised
    cb_calls,             \* invocations of record o's callback
    stop_pc, stop_id, stop_sim, stops_left, stop_result,
    stop_at_call,         \* what status(id) was when the stop call was made
    stop_true,            \* records for which a stop call returned True
    stop_len,             \* stage events in record o's log when that call returned
    clears

\* simulation/network.py: one NetworkSimulator, driven by one caller
VARIABLES
    node,                 \* the NetworkNode objects built so far, in creation order
    nodes,                \* self.nodes: the dict's items (node_id, object), as inserted
    connections,          \* self.connections: list of (node_id, node_id)
    simulation_stats,     \* self.simulation_stats
    net_pc,               \* where the caller of the NetworkSimulator stands
    num_nodes,            \* num_nodes of the running create_network call
    loop_i,               \* iterations done of the loop at line 92 / 131
    node_list,            \* node_list of _create_connections (line 128)
    net_result,           \* what the last call returned or raised
    net_calls,            \* calls made so far, per method
    draws,                \* the arguments and random outcomes followed in this run
    nodes_before          \* len(self.nodes) when create_network or reset_network
                          \* was last called

netVars == <<node, nodes, connections, simulation_stats, net_pc, num_nodes, loop_i,
             node_list, net_result, net_calls, draws, nodes_before>>

cfgVars == <<max_concurrent, attack_duration, request, exec_limit>>
regVars == <<simulations, running_simulations>>
recVars == <<status, end_time, error, metrics, events>>
localVars == <<sim_id, simulation, stage_idx, stage_result, fin, exc, flag_seen,
               cond_seen, loop_raised, visited, elapsed>>
workerVars == <<pc, localVars, start_result>>
stopVars == <<stop_pc, stop_id, stop_sim, stops_left, stop_result, stop_at_call, stop_true,
              stop_len>>
simVars == <<cfgVars, regVars, recVars, workerVars, cb_calls, stopVars, clears>>
vars == <<simVars, netVars>>

\* the longest stage list (line 183) for every call: no bound on the stages run
AllStages == MaxStarts * Len(base_stages)

\* stages executed so far: each adds one to attack_success or defense_success
RECURSIVE ExecCount(_)
ExecCount(S) ==
    IF S = {} THEN 0
    ELSE LET o == CHOOSE x \in S : TRUE
         IN  metrics[o].attack_success + metrics[o].defense_success + ExecCount(S \ {o})

\* the events of record o's log that record a stage (lines 100-110)
StageEvents(o) == SelectSeq(events[o], LAMBDA e : e.event_type # "alert")

RunningIds == {i \in Ids : running_simulations[i] # NoRec}
NoResult == [success |-> FALSE, severity |-> "none", name |-> "none", randoms |-> <<>>]

\* get_simulation_status (335-337), reduced to the status field
StatusOf(id) ==
    IF simulations[id] = NoRec THEN "not_found" ELSE status[simulations[id]]

InitRegistry ==
    /\ simulations = [i \in Ids |-> NoRec]
    /\ running_simulations = [i \in Ids |-> NoRec]
    /\ status = [o \in Slots |-> "none"]
    /\ end_time = [o \in Slots |-> 0]
    /\ error = [o \in Slots |-> "none"]
    /\ metrics = [o \in Slots |-> ZeroMetrics]
    /\ events = [o \in Slots |-> <<>>]
    /\ sim_id = [s \in Slots |-> 0]
    /\ simulation = [s \in Slots |-> NoRec]
    /\ stage_idx = [s \in Slots |-> 0]
    /\ stage_result = [s \in Slots |-> NoResult]
    /\ fin = [s \in Slots |-> NoRec]
    /\ exc = [s \in Slots |-> "none"]
    /\ flag_seen = {}
    /\ cond_seen = {}
    /\ loop_raised = {}
    /\ visited = [s \in Slots |-> <<>>]
    /\ elapsed = [s \in Slots |-> 0]
    /\ start_result = [s \in Slots |-> "none"]
    /\ cb_calls = [o \in Slots |-> 0]
    /\ stop_pc = "idle"
    /\ stop_id = 0
    /\ stop_sim = NoRec
    /\ stop_result = "none"
    /\ stop_at_call = "none"
    /\ stop_true = {}
    /\ stop_len = [o \in Slots |-> 0]
    /\ clears = 0

\* ---- NetworkSimulator.__init__ (61-71) ----
\* reals are kept in ten-thousandths: 1.0 is 10000
FreshStats == [total_nodes |-> 0, compromised_nodes |-> 0, total_attacks |-> 0,
               successful_attacks |-> 0, network_integrity |-> 10000]
NoReturn == [kind |-> "none"]
NoCalls == [create |-> 0, attack |-> 0, reset |-> 0, node |-> 0]

InitNetwork ==
    /\ node = <<>>
    /\ nodes = <<>>
    /\ connections = <<>>
    /\ simulation_stats = FreshStats
    /\ net_pc = "idle"
    /\ num_nodes = 0
    /\ loop_i = 0
    /\ node_list = <<>>
    /\ net_result = NoReturn
    /\ net_calls = NoCalls
    /\ nodes_before = 0

\* a run in which nobody calls the NetworkSimulator
NoDraws == [sizes |-> {}, kinds |-> {}, span |-> "any", pairs |-> "any", attacks |-> {},
            targets |-> {}, calls |-> NoCalls, total |-> 0]
NetUnused == InitNetwork /\ draws = NoDraws

\* a run in which nobody calls the AttackSimulator
SimUnused ==
    /\ max_concurrent = 1
    /\ attack_duration = DefaultAttackDuration
    /\ request = [s \in Slots |-> [attack_type |-> "phishing", defenses |-> NoDefenses,
                                   callback |-> "ok"]]
    /\ exec_limit = 0
    /\ stops_left = 0
    /\ InitRegistry
    /\ pc = [s \in Slots |-> "unused"]

InitConfig ==
    /\ max_concurrent \in 1..MaxLimit
    /\ attack_duration \in Durations
    /\ request \in [Slots -> Requests]
    /\ exec_limit = AllStages
    /\ stops_left = MaxStops

\* every caller thread is about to call start_simulation
Init ==
    /\ InitConfig
    /\ InitRegistry
    /\ NetUnused
    /\ pc = [s \in Slots |-> "idle"]

\* one caller thread is about to call start_simulation, the others never do
InitClear ==
    /\ InitConfig
    /\ InitRegistry
    /\ NetUnused
    /\ pc = [s \in Slots |-> IF s = 1 THEN "idle" ELSE "unused"]

\* one caller thread is about to start one campaign of several stages, under the
\* default attack_duration
InitCampaign ==
    /\ max_concurrent \in 1..MaxLimit
    /\ attack_duration = DefaultAttackDuration
    /\ \E r \in CampaignRequests : request = [s \in Slots |-> r]
    /\ exec_limit = AllStages
    /\ stops_left = MaxStops
    /\ InitRegistry
    /\ NetUnused
    /\ pc = [s \in Slots |-> IF s = 1 THEN "idle" ELSE "unused"]

\* the caller threads are about to call start_simulation, the first with a config
\* whose first stage raises, the others with a phishing config of several stages;
\* nobody calls stop_simulation and the run is followed for MaxExecs stages
PairRequests ==
    [s \in Slots |->
       IF s = 1
       THEN [attack_type |-> "phishing", defenses |-> BadDefenses, callback |-> "ok"]
       ELSE [attack_type |-> "phishing", defenses |-> NoDefenses, callback |-> "ok"]]
InitPair ==
    /\ max_concurrent \in 1..MaxLimit
    /\ attack_duration = DefaultAttackDuration
    /\ request = PairRequests
    /\ exec_limit = MaxExecs
    /\ stops_left = 0
    /\ InitRegistry
    /\ NetUnused
    /\ pc = [s \in Slots |-> "idle"]

\* ---- start_simulation ----

\* the limit check with > in place of >=
AtCapacityOffByOne == Cardinality(RunningIds) > max_concurrent

\* line 44
AtCapacity == Cardinality(RunningIds) >= max_concurrent

\* lines 41-45: draw the id, check the limit
StartCheck(s) ==
    /\ pc[s] = "idle"
    /\ \E id \in Ids :
         IF AtCapacity
         THEN /\ pc' = [pc EXCEPT ![s] = "rejected"]
              /\ start_result' = [start_result EXCEPT ![s] = "CapacityExceeded"]
              /\ UNCHANGED sim_id
         ELSE /\ pc' = [pc EXCEPT ![s] = "create"]
              /\ sim_id' = [sim_id EXCEPT ![s] = id]
              /\ UNCHANGED start_result
    /\ UNCHANGED <<netVars, cfgVars, regVars, recVars, simulation, stage_idx, stage_result, fin,
                   exc, flag_seen, cond_seen, loop_raised, visited, elapsed, cb_calls,
                   stopVars, clears>>

\* lines 48-63: build the record, self.simulations[sim_id] = simulation
StartCreate(s) ==
    /\ pc[s] = "create"
    /\ status' = [status EXCEPT ![s] = "running"]
    /\ simulations' = [simulations EXCEPT ![sim_id[s]] = s]
    /\ pc' = [pc EXCEPT ![s] = "register"]
    /\ UNCHANGED <<netVars, cfgVars, running_simulations, end_time, error, metrics, events,
                   localVars, start_result, cb_calls, stopVars, clears>>

\* lines 64-76: self.running_simulations[sim_id] = simulation, start the thread, return
StartRegister(s) ==
    /\ pc[s] = "register"
    /\ running_simulations' = [running_simulations EXCEPT ![sim_id[s]] = s]
    /\ start_result' = [start_result EXCEPT ![s] = "ok"]
    /\ pc' = [pc EXCEPT ![s] = "w_begin"]
    /\ UNCHANGED <<netVars, cfgVars, simulations, recVars, localVars, cb_calls, stopVars, clears>>

\* ---- _run_simulation ----

\* the thread of call s ends; its locals are gone with it
Exit(s, how) ==
    /\ pc' = [pc EXCEPT ![s] = how]
    /\ sim_id' = [sim_id EXCEPT ![s] = 0]
    /\ simulation' = [simulation EXCEPT ![s] = NoRec]
    /\ stage_idx' = [stage_idx EXCEPT ![s] = 0]
    /\ fin' = [fin EXCEPT ![s] = NoRec]
    /\ visited' = [visited EXCEPT ![s] = <<>>]
    /\ elapsed' = [elapsed EXCEPT ![s] = 0]
    /\ UNCHANGED <<stage_result, exc, flag_seen, cond_seen, loop_raised>>

\* the except clause of line 126 receives exception e
Raise(s, e) ==
    /\ pc' = [pc EXCEPT ![s] = "f_lookup"]
    /\ exc' = [exc EXCEPT ![s] = e]

\* lines 85-90
WorkerBegin(s) ==
    /\ pc[s] = "w_begin"
    /\ IF simulations[sim_id[s]] = NoRec
       THEN /\ Raise(s, "KeyError")
            /\ UNCHANGED <<simulation, stage_idx>>
       ELSE /\ simulation' = [simulation EXCEPT ![s] = simulations[sim_id[s]]]
            /\ stage_idx' = [stage_idx EXCEPT ![s] = 1]
            /\ pc' = [pc EXCEPT ![s] = "w_loop"]
            /\ UNCHANGED exc
    /\ UNCHANGED <<netVars, cfgVars, regVars, recVars, sim_id, stage_result, fin, flag_seen,
                   cond_seen, loop_raised, visited, elapsed, start_result, cb_calls, stopVars,
                   clears>>

Stages(s) == _get_attack_stages(request[simulation[s]].attack_type)

\* lines 92-94: the next element of stages, or the end of the loop
WorkerLoop(s) ==
    /\ pc[s] = "w_loop"
    /\ elapsed' = [elapsed EXCEPT ![s] = 0]
    /\ IF stage_idx[s] > Len(Stages(s))
       THEN /\ pc' = [pc EXCEPT ![s] = "c_lookup"]
            /\ UNCHANGED flag_seen
       ELSE IF status[simulation[s]] # "running"
       THEN /\ pc' = [pc EXCEPT ![s] = "c_lookup"]
            /\ flag_seen' = flag_seen \cup {s}
       ELSE /\ pc' = [pc EXCEPT ![s] = "w_exec"]
            /\ UNCHANGED flag_seen
    /\ UNCHANGED <<netVars, cfgVars, regVars, recVars, sim_id, simulation, stage_idx, stage_result,
                   fin, exc, cond_seen, loop_raised, visited, start_result, cb_calls,
                   stopVars, clears>>

\* the test of line 196 with >= in place of >
StageSucceedsAtModifier(stage, modifier, r1, r2) ==
    (r1 < stage.success_rate) /\ (r2 >= modifier)

\* lines 192-196
StageSucceeds(stage, modifier, r1, r2) == (r1 < stage.success_rate) /\ (r2 > modifier)

\* line 97, _execute_stage (185-213); the values random.random() returned are kept
\* with the result: the second call is made only when the first test passed
WorkerExec(s) ==
    /\ pc[s] = "w_exec"
    /\ ExecCount(Slots) < exec_limit
    /\ LET o == simulation[s]
           stage == Stages(s)[stage_idx[s]]
           defenses == request[o].defenses
       IN  IF ~defenses.ok
           THEN /\ Raise(s, "TypeError")
                /\ loop_raised' = loop_raised \cup {s}
                /\ UNCHANGED <<metrics, stage_result>>
           ELSE \E r1 \in RandVals, r2 \in RandVals :
                  LET ok == StageSucceeds(stage, _calculate_defense_modifier(defenses.names), r1, r2)
                  IN  /\ metrics' = [metrics EXCEPT ![o] =
                             IF ok THEN [@ EXCEPT !.attack_success = @ + 1]
                                   ELSE [@ EXCEPT !.defense_success = @ + 1]]
                      /\ stage_result' = [stage_result EXCEPT ![s] =
                             [success |-> ok,
                              severity |-> IF ok THEN "high" ELSE "medium",
                              name |-> stage.name,
                              randoms |-> IF r1 < stage.success_rate
                                          THEN <<r1, r2>> ELSE <<r1>>]]
                      /\ pc' = [pc EXCEPT ![s] = "w_append"]
                      /\ UNCHANGED <<exc, loop_raised>>
    /\ visited' = [visited EXCEPT ![s] = Append(@, Stages(s)[stage_idx[s]].name)]
    /\ UNCHANGED <<netVars, cfgVars, regVars, status, end_time, error, events, sim_id, simulation,
                   stage_idx, fin, flag_seen, cond_seen, elapsed, start_result, cb_calls,
                   stopVars, clears>>

StageEvent(res) == [event_type |-> res.name, severity |-> res.severity]
\* the alert of lines 273-281; its metadata holds attack_ratio, kept here as the
\* pair of counters it was computed from, and the threshold
AlertEvent(m) ==
    [event_type |-> "alert", severity |-> "critical",
     risk_score |-> <<m.attack_success, m.total_events>>, threshold |-> alert_threshold]

\* list.insert(0, e) in place of list.append(e)
ListInsertFront(log, e) == <<e>> \o log

\* simulation["events"].append(e) (lines 110, 284)
ListAppend(log, e) == Append(log, e)

\* lines 100-110
WorkerAppend(s) ==
    /\ pc[s] = "w_append"
    /\ events' = [events EXCEPT ![simulation[s]] = ListAppend(@, StageEvent(stage_result[s]))]
    /\ stage_result' = [stage_result EXCEPT ![s] = NoResult]
    /\ pc' = [pc EXCEPT ![s] = "w_total"]
    /\ UNCHANGED <<netVars, cfgVars, regVars, status, end_time, error, metrics, sim_id, simulation,
                   stage_idx, fin, exc, flag_seen, cond_seen, loop_raised, visited,
                   elapsed, start_result, cb_calls, stopVars, clears>>

\* line 111
WorkerTotal(s) ==
    /\ pc[s] = "w_total"
    /\ metrics' = [metrics EXCEPT ![simulation[s]].total_events = @ + 1]
    /\ pc' = [pc EXCEPT ![s] = "w_update"]
    /\ UNCHANGED <<netVars, cfgVars, regVars, status, end_time, error, events, localVars,
                   start_result, cb_calls, stopVars, clears>>

\* the test of line 251 with >= in place of >
AlertDueAtThreshold(m) == 100 * m.attack_success >= alert_threshold * m.total_events

\* line 251
AlertDue(m) == 100 * m.attack_success > alert_threshold * m.total_events

\* line 114: _update_simulation_metrics (239-252) and _trigger_alert (271-286)
WorkerUpdate(s) ==
    /\ pc[s] = "w_update"
    /\ LET o == simulations[sim_id[s]]
       IN  IF o = NoRec
           THEN /\ Raise(s, "KeyError")
                /\ loop_raised' = loop_raised \cup {s}
                /\ UNCHANGED <<metrics, events>>
           ELSE /\ IF metrics[o].total_events > 0
                   THEN /\ metrics' = [metrics EXCEPT ![o].risk_score =
                               Round2(metrics[o].attack_success, metrics[o].total_events)]
                        /\ events' = IF AlertDue(metrics[o])
                                     THEN [events EXCEPT ![o] = ListAppend(@, AlertEvent(metrics[o]))]
                                     ELSE events
                   ELSE UNCHANGED <<metrics, events>>
                /\ pc' = [pc EXCEPT ![s] = "w_check"]
                /\ UNCHANGED <<exc, loop_raised>>
    /\ UNCHANGED <<netVars, cfgVars, regVars, status, end_time, error, sim_id, simulation,
                   stage_idx, stage_result, fin, flag_seen, cond_seen, visited, elapsed,
                   start_result, cb_calls, stopVars, clears>>

\* _should_stop_simulation (254-269)
_should_stop_simulation(m, t) ==
    \/ t > attack_duration
    \/ m.attack_success >= AttackSuccessLimit
    \/ m.defense_success >= DefenseSuccessLimit

\* lines 117-121: leave the loop, or sleep and go on with the next stage
WorkerCheck(s) ==
    /\ pc[s] = "w_check"
    /\ \E t \in ElapsedVals :
         /\ elapsed' = [elapsed EXCEPT ![s] = t]
         /\ IF _should_stop_simulation(metrics[simulation[s]], t)
            THEN /\ pc' = [pc EXCEPT ![s] = "c_lookup"]
                 /\ cond_seen' = cond_seen \cup {s}
                 /\ UNCHANGED stage_idx
            ELSE /\ pc' = [pc EXCEPT ![s] = "w_loop"]
                 /\ stage_idx' = [stage_idx EXCEPT ![s] = @ + 1]
                 /\ UNCHANGED cond_seen
    /\ UNCHANGED <<netVars, cfgVars, regVars, recVars, sim_id, simulation, stage_result, fin, exc,
                   flag_seen, loop_raised, visited, start_result, cb_calls, stopVars,
                   clears>>

\* ---- _complete_simulation ----

\* line 124, lines 290-291: look the record up again, status = "completed"
CompleteStatus(s) ==
    /\ pc[s] = "c_lookup"
    /\ elapsed' = [elapsed EXCEPT ![s] = 0]
    /\ LET o == simulations[sim_id[s]]
       IN  IF o = NoRec
           THEN /\ Raise(s, "KeyError")
                /\ UNCHANGED <<status, fin>>
           ELSE /\ fin' = [fin EXCEPT ![s] = o]
                /\ status' = [status EXCEPT ![o] = "completed"]
                /\ pc' = [pc EXCEPT ![s] = "c_end"]
                /\ UNCHANGED exc
    /\ UNCHANGED <<netVars, cfgVars, regVars, end_time, error, metrics, events, sim_id, simulation,
                   stage_idx, stage_result, flag_seen, cond_seen, loop_raised, visited,
                   start_result, cb_calls, stopVars, clears>>

\* lines 292-293: end_time = datetime.now(); each reading of the clock is a new value,
\* kept as the number of readings stored in the record
CompleteEndTime(s) ==
    /\ pc[s] = "c_end"
    /\ end_time' = [end_time EXCEPT ![fin[s]] = @ + 1]
    /\ pc' = [pc EXCEPT ![s] = "c_delcheck"]
    /\ UNCHANGED <<netVars, cfgVars, regVars, status, error, metrics, events, localVars,
                   start_result, cb_calls, stopVars, clears>>

\* line 296: if sim_id in self.running_simulations
CompleteDelCheck(s) ==
    /\ pc[s] = "c_delcheck"
    /\ pc' = [pc EXCEPT ![s] = IF sim_id[s] \in RunningIds THEN "c_del" ELSE "c_callback"]
    /\ UNCHANGED <<netVars, cfgVars, regVars, recVars, localVars, start_result, cb_calls, stopVars,
                   clears>>

\* line 297: del self.running_simulations[sim_id]
CompleteDel(s) ==
    /\ pc[s] = "c_del"
    /\ IF sim_id[s] \in RunningIds
       THEN /\ running_simulations' = [running_simulations EXCEPT ![sim_id[s]] = NoRec]
            /\ pc' = [pc EXCEPT ![s] = "c_callback"]
            /\ UNCHANGED exc
       ELSE /\ Raise(s, "KeyError")
            /\ UNCHANGED running_simulations
    /\ UNCHANGED <<netVars, cfgVars, simulations, recVars, sim_id, simulation, stage_idx,
                   stage_result, fin, flag_seen, cond_seen, loop_raised, visited, elapsed,
                   start_result, cb_calls, stopVars, clears>>

\* lines 300-307: the callback of the record, its exception swallowed
CompleteCallback(s) ==
    /\ pc[s] = "c_callback"
    /\ cb_calls' = IF request[fin[s]].callback # "none"
                   THEN [cb_calls EXCEPT ![fin[s]] = @ + 1] ELSE cb_calls
    /\ Exit(s, "done")
    /\ UNCHANGED <<netVars, cfgVars, regVars, recVars, start_result, stopVars, clears>>

\* ---- _fail_simulation ----

\* line 128, lines 311-312; a KeyError here leaves the thread with no handler
FailStatus(s) ==
    /\ pc[s] = "f_lookup"
    /\ LET o == simulations[sim_id[s]]
       IN  IF o = NoRec
           THEN /\ Exit(s, "crashed")
                /\ UNCHANGED status
           ELSE /\ fin' = [fin EXCEPT ![s] = o]
                /\ status' = [status EXCEPT ![o] = "failed"]
                /\ pc' = [pc EXCEPT ![s] = "f_error"]
                /\ UNCHANGED <<sim_id, simulation, stage_idx, stage_result, exc, flag_seen,
                               cond_seen, loop_raised, visited, elapsed>>
    /\ UNCHANGED <<netVars, cfgVars, regVars, end_time, error, metrics, events, start_result,
                   cb_calls, stopVars, clears>>

\* lines 313-314
FailError(s) ==
    /\ pc[s] = "f_error"
    /\ error' = [error EXCEPT ![fin[s]] = exc[s]]
    /\ end_time' = [end_time EXCEPT ![fin[s]] = @ + 1]
    /\ pc' = [pc EXCEPT ![s] = "f_delcheck"]
    /\ UNCHANGED <<netVars, cfgVars, regVars, status, metrics, events, localVars, start_result,
                   cb_calls, stopVars, clears>>

\* line 316
FailDelCheck(s) ==
    /\ pc[s] = "f_delcheck"
    /\ IF sim_id[s] \in RunningIds
       THEN /\ pc' = [pc EXCEPT ![s] = "f_del"]
            /\ UNCHANGED localVars
       ELSE Exit(s, "done")
    /\ UNCHANGED <<netVars, cfgVars, regVars, recVars, start_result, cb_calls, stopVars, clears>>

\* lines 317-319
FailDel(s) ==
    /\ pc[s] = "f_del"
    /\ IF sim_id[s] \in RunningIds
       THEN /\ running_simulations' = [running_simulations EXCEPT ![sim_id[s]] = NoRec]
            /\ Exit(s, "done")
       ELSE /\ Exit(s, "crashed")
            /\ UNCHANGED running_simulations
    /\ UNCHANGED <<netVars, cfgVars, simulations, recVars, start_result, cb_calls, stopVars,
                   clears>>

\* ---- stop_simulation ----

\* line 323: if sim_id in self.running_simulations, else line 333: return False
StopCheck(id) ==
    /\ stop_pc = "idle"
    /\ stops_left > 0
    /\ stops_left' = stops_left - 1
    /\ stop_at_call' = StatusOf(id)
    /\ IF id \in RunningIds
       THEN /\ stop_pc' = "get"
            /\ stop_id' = id
            /\ stop_result' = "none"
       ELSE /\ stop_pc' = "idle"
            /\ stop_id' = 0
            /\ stop_result' = "False"
    /\ UNCHANGED <<netVars, cfgVars, regVars, recVars, workerVars, cb_calls, stop_sim, stop_true,
                   stop_len, clears>>

\* the stop call returns or raises; its locals are gone with it
StopReturn(result) ==
    /\ stop_pc' = "idle"
    /\ stop_id' = 0
    /\ stop_sim' = NoRec
    /\ stop_result' = result

\* line 324: simulation = self.running_simulations[sim_id]
StopGet ==
    /\ stop_pc = "get"
    /\ IF stop_id \in RunningIds
       THEN /\ stop_sim' = running_simulations[stop_id]
            /\ stop_pc' = "status"
            /\ UNCHANGED <<stop_id, stop_result>>
       ELSE StopReturn("KeyError")
    /\ UNCHANGED <<netVars, cfgVars, regVars, recVars, workerVars, cb_calls, stops_left,
                   stop_at_call, stop_true, stop_len, clears>>

\* line 325
StopStatus ==
    /\ stop_pc = "status"
    /\ status' = [status EXCEPT ![stop_sim] = "stopped"]
    /\ stop_pc' = "end"
    /\ UNCHANGED <<netVars, cfgVars, regVars, end_time, error, metrics, events, workerVars,
                   cb_calls, stop_id, stop_sim, stops_left, stop_result, stop_at_call, stop_true,
                   stop_len, clears>>

\* line 326
StopEndTime ==
    /\ stop_pc = "end"
    /\ end_time' = [end_time EXCEPT ![stop_sim] = @ + 1]
    /\ stop_pc' = "del"
    /\ UNCHANGED <<netVars, cfgVars, regVars, status, error, metrics, events, workerVars, cb_calls,
                   stop_id, stop_sim, stops_left, stop_result, stop_at_call, stop_true,
                   stop_len, clears>>

\* lines 328-331: del self.running_simulations[sim_id]; return True
StopDel ==
    /\ stop_pc = "del"
    /\ IF stop_id \in RunningIds
       THEN /\ running_simulations' = [running_simulations EXCEPT ![stop_id] = NoRec]
            /\ stop_true' = stop_true \cup {stop_sim}
            /\ stop_len' = [stop_len EXCEPT ![stop_sim] = Len(StageEvents(stop_sim))]
            /\ StopReturn("True")
       ELSE /\ StopReturn("KeyError")
            /\ UNCHANGED <<running_simulations, stop_true, stop_len>>
    /\ UNCHANGED <<netVars, cfgVars, simulations, recVars, workerVars, cb_calls, stops_left,
                   stop_at_call, clears>>

\* ---- clear_simulations (404-407) ----
ClearSimulations ==
    /\ clears < MaxClears
    /\ clears' = clears + 1
    /\ simulations' = [i \in Ids |-> NoRec]
    /\ UNCHANGED <<netVars, cfgVars, running_simulations, recVars, workerVars, cb_calls, stopVars>>

Start(s) == StartCheck(s) \/ StartCreate(s) \/ StartRegister(s)
Stage(s) == WorkerBegin(s) \/ WorkerLoop(s) \/ WorkerExec(s) \/ WorkerAppend(s)
            \/ WorkerTotal(s) \/ WorkerUpdate(s) \/ WorkerCheck(s)
Complete(s) == CompleteStatus(s) \/ CompleteEndTime(s) \/ CompleteDelCheck(s)
               \/ CompleteDel(s) \/ CompleteCallback(s)
Fail(s) == FailStatus(s) \/ FailError(s) \/ FailDelCheck(s) \/ FailDel(s)
Stop == (\E id \in Ids : StopCheck(id)) \/ StopGet \/ StopStatus \/ StopEndTime \/ StopDel

Next ==
    \/ \E s \in Slots : Start(s)
    \/ \E s \in Slots : Stage(s)
    \/ \E s \in Slots : Complete(s)
    \/ \E s \in Slots : Fail(s)
    \/ Stop

Spec == Init /\ [][Next]_vars

\* one campaign, with clear_simulations among the calls
NextClear == Next \/ ClearSimulations
SpecClear == InitClear /\ [][NextClear]_vars

\* the same, every thread that has been started being scheduled again and again:
\* a start call that passed the limit check returns, a worker thread runs until
\* its function returns or raises (each time.sleep of line 121 ends)
Fairness ==
    \A s \in Slots :
      /\ WF_vars(StartCreate(s) \/ StartRegister(s))
      /\ WF_vars(Stage(s) \/ Complete(s) \/ Fail(s))
FairSpecClear == SpecClear /\ Fairness

\* campaigns of several stages started by concurrent calls, without stop calls
NextPair ==
    \/ \E s \in Slots : Start(s)
    \/ \E s \in Slots : Stage(s)
    \/ \E s \in Slots : Complete(s)
    \/ \E s \in Slots : Fail(s)
SpecPair == InitPair /\ [][NextPair]_vars

\* one campaign of several stages, with stop calls
SpecCampaign == InitCampaign /\ [][Next]_vars

\* ---- simulation/network.py: NetworkNode ----

Max(a, b) == IF a > b THEN a ELSE b

RECURSIVE SumSeq(_)
SumSeq(q) == IF q = <<>> THEN 0 ELSE Head(q) + SumSeq(Tail(q))

\* NetworkNode.__init__ (10-17); security_level is the draw of line 17
NetworkNode(node_id, node_type, level) ==
    [node_id |-> node_id, node_type |-> node_type, connections |-> <<>>,
     vulnerabilities |-> <<>>, attack_history |-> <<>>, is_compromised |-> FALSE,
     security_level |-> level]

\* add_vulnerability (25-31): of the entry only the severity is ever read
add_vulnerability(n, severity) ==
    [n EXCEPT !.vulnerabilities = Append(@, severity)]

\* record_attack with the flag assigned from the outcome of every attack
RecordAttackAssign(n, attack_type, success) ==
    [n EXCEPT !.attack_history = Append(@, [type |-> attack_type, success |-> success]),
              !.is_compromised = success]

\* record_attack (33-44)
record_attack(n, attack_type, success) ==
    [n EXCEPT !.attack_history = Append(@, [type |-> attack_type, success |-> success]),
              !.is_compromised = IF success THEN TRUE ELSE @]

\* get_security_score (46-56)
get_security_score(n) ==
    LET vulnerability_penalty == SumSeq(n.vulnerabilities) \div 10
        compromise_penalty == IF n.is_compromised THEN 5000 ELSE 0
    IN  Max(0, n.security_level - vulnerability_penalty - compromise_penalty)

\* ---- simulation/network.py: NetworkSimulator ----

KnownAttacks == {"phishing", "brute_force", "exploit", "social_engineering"}

base_success_rate == 3000

\* every attack type given the default of line 226
AttackModifiersDefault(attack_type) == 3000

attack_modifiers(attack_type) ==
    CASE attack_type = "phishing" -> 4000
      [] attack_type = "brute_force" -> 2000
      [] attack_type = "exploit" -> 6000
      [] attack_type = "social_engineering" -> 5000
      [] OTHER -> 3000

\* the rate returned as computed, without the limits of line 237
RateUnlimited(rate) == rate

\* line 237: min(0.95, max(0.05, final_success_rate))
RateLimited(rate) == Min(9500, Max(500, rate))

\* _calculate_attack_success with the vulnerability modifier of line 229 subtracted
AttackSuccessMinusVulnerabilities(attack_type, target_node) ==
    LET attack_modifier == attack_modifiers(attack_type)
        vulnerability_modifier == (SumSeq(target_node.vulnerabilities) * 2) \div 10
        security_modifier == ((10000 - get_security_score(target_node)) * 3) \div 10
    IN  RateLimited(base_success_rate + attack_modifier - vulnerability_modifier
                    + security_modifier)

\* _calculate_attack_success (214-237)
_calculate_attack_success(attack_type, target_node) ==
    LET attack_modifier == attack_modifiers(attack_type)
        vulnerability_modifier == (SumSeq(target_node.vulnerabilities) * 2) \div 10
        security_modifier == ((10000 - get_security_score(target_node)) * 3) \div 10
    IN  RateLimited(base_success_rate + attack_modifier + vulnerability_modifier
                    + security_modifier)

\* the dict self.nodes: keys(), list(values()), [node_id], [node_id] = object
Keys(d) == {d[k].node_id : k \in DOMAIN d}
Values(d) == [k \in DOMAIN d |-> d[k].obj]
\* a lookup that returns the first object of the dict whatever the key
DictGetFirst(d, node_id) == d[1].obj
\* self.nodes[node_id]
DictGet(d, node_id) == d[CHOOSE k \in DOMAIN d : d[k].node_id = node_id].obj
DictSet(d, node_id, o) ==
    IF node_id \in Keys(d)
    THEN [k \in DOMAIN d |->
            IF d[k].node_id = node_id THEN [node_id |-> node_id, obj |-> o] ELSE d[k]]
    ELSE Append(d, [node_id |-> node_id, obj |-> o])

\* sum(1 for node in self.nodes.values() if node.is_compromised)
CompromisedCount(d, heap) ==
    Cardinality({k \in DOMAIN d : heap[d[k].obj].is_compromised})

\* the difference of line 253 returned as it is
IntegrityUnfloored(d, heap) ==
    IF d = <<>> THEN 10000
    ELSE LET scores == [k \in DOMAIN d |-> get_security_score(heap[d[k].obj])]
             base_integrity == SumSeq(scores) \div Len(d)
             compromise_penalty == (CompromisedCount(d, heap) * 5000) \div Len(d)
         IN  base_integrity - compromise_penalty

\* _calculate_network_integrity (239-253) of the dict d over the objects heap
_calculate_network_integrity(d, heap) ==
    IF d = <<>> THEN 10000
    ELSE LET scores == [k \in DOMAIN d |-> get_security_score(heap[d[k].obj])]
             base_integrity == SumSeq(scores) \div Len(d)
             compromise_penalty == (CompromisedCount(d, heap) * 5000) \div Len(d)
         IN  Max(0, base_integrity - compromise_penalty)

\* the statistics left with the network_integrity they had
IntegrityKept(stats, d, heap) == stats

\* lines 112 and 195: simulation_stats['network_integrity'] is computed anew
IntegrityUpdated(stats, d, heap) ==
    [stats EXCEPT !.network_integrity = _calculate_network_integrity(d, heap)]

\* ---- create_network (79-124) ----
\* a node_id f"{node_type}_{i+1}" is kept as the pair <<node_type, i+1>>

\* a call of the method m is within what this run follows
CallAllowed(m) ==
    /\ net_calls[m] < draws.calls[m]
    /\ net_calls.create + net_calls.attack + net_calls.reset + net_calls.node < draws.total

\* the draws of lines 93, 17 and 99-102 for one node: its type, its security_level
\* and the severity of its vulnerability (0: the draw of line 99 gave none)
NodeDraw(node_type, level, severity) ==
    [node_type |-> node_type, security_level |-> level, severity |-> severity]

\* add_connection (19-23) between the objects a and b
add_connection(heap, a, b) ==
    IF b \in {heap[a].connections[k] : k \in DOMAIN heap[a].connections}
    THEN heap
    ELSE LET h == [heap EXCEPT ![a].connections = Append(@, b)]
         IN  [h EXCEPT ![b].connections = Append(@, a)]

\* the choice of line 133 made among node_list[:i+1], the node itself included
SpanTargetsSelf(i) == 1..(i + 1)

\* line 133: random.choice(node_list[:i]), as positions of node_list
SpanTargets(i) == 1..i

\* the limit of line 138 without the factor 2
MaxConnectionsSingle(list) == Min(Len(list), 50)

\* line 138
max_connections(list) == Min(Len(list) * 2, 50)

\* the condition of line 144 for the pair of positions p
Connectable(p) ==
    /\ node_list[p[1]] # node_list[p[2]]
    /\ \A k \in DOMAIN connections :
         connections[k] # <<node[node_list[p[1]]].node_id, node[node_list[p[2]]].node_id>>

\* the draws of lines 133 and 141-142 this run follows: all of them, or the
\* previous node and the first pair that passes line 144
SpanDraws(i) == IF draws.span = "last" THEN {i} ELSE SpanTargets(i)
PairDraws ==
    LET all == (DOMAIN node_list) \X (DOMAIN node_list)
        ok == {p \in all : Connectable(p)}
    IN  IF draws.pairs = "any" \/ ok = {} THEN all
        ELSE {CHOOSE p \in ok :
                \A q \in ok : p[1] < q[1] \/ (p[1] = q[1] /\ p[2] <= q[2])}

CreateCall(n) ==
    /\ net_pc = "idle"
    /\ CallAllowed("create")
    /\ net_calls' = [net_calls EXCEPT !.create = @ + 1]
    /\ num_nodes' = n
    /\ loop_i' = 0
    /\ net_result' = NoReturn
    /\ net_pc' = "nodes"
    /\ nodes_before' = Len(nodes)
    /\ UNCHANGED <<simVars, node, nodes, connections, simulation_stats, node_list, draws>>

\* one iteration of the loop of lines 92-105
CreateNode ==
    /\ net_pc = "nodes"
    /\ loop_i < num_nodes
    /\ \E draw \in draws.kinds :
         LET node_id == <<draw.node_type, loop_i + 1>>
             fresh == NetworkNode(node_id, draw.node_type, draw.security_level)
         IN  /\ node' = Append(node, IF draw.severity = 0 THEN fresh
                                     ELSE add_vulnerability(fresh, draw.severity))
             /\ nodes' = DictSet(nodes, node_id, Len(node) + 1)
    /\ loop_i' = loop_i + 1
    /\ UNCHANGED <<simVars, connections, simulation_stats, net_pc, num_nodes, node_list,
                   net_result, net_calls, draws,
                   nodes_before>>

\* line 128, and the iteration i = 0 of the loop of line 131, which does nothing
CreateConnections ==
    /\ net_pc = "nodes"
    /\ loop_i >= num_nodes
    /\ node_list' = Values(nodes)
    /\ loop_i' = 1
    /\ net_pc' = IF 1 < Len(nodes) THEN "span" ELSE "extra"
    /\ UNCHANGED <<simVars, node, nodes, connections, simulation_stats, num_nodes,
                   net_result, net_calls, draws,
                   nodes_before>>

\* one iteration i > 0 of the loop of lines 131-135
SpanConnect ==
    /\ net_pc = "span"
    /\ loop_i < Len(node_list)
    /\ \E j \in SpanDraws(loop_i) :
         LET a == node_list[loop_i + 1]
             b == node_list[j]
         IN  /\ node' = add_connection(node, a, b)
             /\ connections' = Append(connections, <<node[a].node_id, node[b].node_id>>)
    /\ loop_i' = loop_i + 1
    /\ net_pc' = IF loop_i + 1 < Len(node_list) THEN "span" ELSE "extra"
    /\ UNCHANGED <<simVars, nodes, simulation_stats, num_nodes, node_list, net_result,
                   net_calls, draws,
                   nodes_before>>

\* one iteration of the loop of lines 140-146
ExtraConnect ==
    /\ net_pc = "extra"
    /\ Len(connections) < max_connections(node_list)
    /\ \E p \in PairDraws :
         LET node1 == node_list[p[1]]
             node2 == node_list[p[2]]
         IN  IF Connectable(p)
             THEN /\ node' = add_connection(node, node1, node2)
                  /\ connections' =
                       Append(connections, <<node[node1].node_id, node[node2].node_id>>)
             ELSE UNCHANGED <<node, connections>>
    /\ UNCHANGED <<simVars, nodes, simulation_stats, net_pc, num_nodes, loop_i, node_list,
                   net_result, net_calls, draws,
                   nodes_before>>

\* the loop of line 140 ends; lines 111-124
CreateReturn ==
    /\ net_pc = "extra"
    /\ Len(connections) >= max_connections(node_list)
    /\ simulation_stats' =
         IntegrityUpdated([simulation_stats EXCEPT !.total_nodes = Len(nodes)], nodes, node)
    /\ net_result' = [kind |-> "network"]
    /\ net_pc' = "idle"
    /\ num_nodes' = 0
    /\ loop_i' = 0
    /\ node_list' = <<>>
    /\ UNCHANGED <<simVars, node, nodes, connections, net_calls, draws,
                   nodes_before>>

\* ---- simulate_attack (148-212) ----

\* values of random.random() at line 171, in ten-thousandths
AttackRandVals == {0, 5000, 9999}
\* target_node_id = None
NoTarget == <<"None", 0>>

\* a guard that never finds the network missing
NetworkAlwaysCreated(d) == FALSE

\* line 150: not self.nodes
NetworkNotCreated(d) == d = <<>>

Raised(e) == [kind |-> e]

\* what the call does once its target is known (lines 157-212)
AttackNode(attack_type, target_node_id) ==
    \E r \in AttackRandVals :
      LET target_node == DictGet(nodes, target_node_id)
          success_probability == _calculate_attack_success(attack_type, node[target_node])
          attack_success == r < success_probability
          heap == [node EXCEPT ![target_node] = record_attack(@, attack_type, attack_success)]
          counted == [simulation_stats EXCEPT !.total_attacks = @ + 1]
          scored == IF attack_success
                    THEN [counted EXCEPT !.successful_attacks = @ + 1,
                                         !.compromised_nodes = CompromisedCount(nodes, heap)]
                    ELSE counted
          stats == IntegrityUpdated(scored, nodes, heap)
      IN  /\ node' = heap
          /\ simulation_stats' = stats
          /\ net_result' = [kind |-> "attack", attack_type |-> attack_type,
                            target_node |-> target_node_id, success |-> attack_success,
                            success_probability |-> success_probability,
                            network_stats |-> stats]

SimulateAttack(attack_type, target_node_id) ==
    /\ net_pc = "idle"
    /\ CallAllowed("attack")
    /\ net_calls' = [net_calls EXCEPT !.attack = @ + 1]
    /\ IF NetworkNotCreated(nodes)
       THEN /\ net_result' = Raised("ValueError")
            /\ UNCHANGED <<node, simulation_stats>>
       ELSE IF target_node_id = NoTarget /\ Keys(nodes) = {}
       THEN /\ net_result' = Raised("IndexError")         \* line 155
            /\ UNCHANGED <<node, simulation_stats>>
       ELSE \E t \in (IF target_node_id = NoTarget THEN Keys(nodes)
                      ELSE {target_node_id}) :
              IF t \notin Keys(nodes)
              THEN /\ net_result' = Raised("KeyError")    \* line 157
                   /\ UNCHANGED <<node, simulation_stats>>
              ELSE AttackNode(attack_type, t)
    /\ UNCHANGED <<simVars, nodes, connections, net_pc, num_nodes, loop_i, node_list, draws,
                   nodes_before>>

\* ---- reset_network (272-282) ----

\* a clear() that leaves the container as it is
ContainerKept(c) == c

\* dict.clear() / list.clear() (274-275)
ContainerCleared(c) == <<>>

\* the node objects are referenced from self.nodes only: they go with the dict
ResetNetwork ==
    /\ net_pc = "idle"
    /\ CallAllowed("reset")
    /\ net_calls' = [net_calls EXCEPT !.reset = @ + 1]
    /\ nodes' = ContainerCleared(nodes)
    /\ connections' = ContainerCleared(connections)
    /\ node' = IF ContainerCleared(nodes) = <<>> THEN <<>> ELSE node
    /\ simulation_stats' = FreshStats
    /\ net_result' = [kind |-> "reset"]
    /\ nodes_before' = Len(nodes)
    /\ UNCHANGED <<simVars, net_pc, num_nodes, loop_i, node_list, draws>>

\* ---- calls on a NetworkNode the caller holds ----

NodeAddVulnerability(o, severity) ==
    /\ net_pc = "idle"
    /\ CallAllowed("node")
    /\ net_calls' = [net_calls EXCEPT !.node = @ + 1]
    /\ node' = [node EXCEPT ![o] = add_vulnerability(@, severity)]
    /\ net_result' = [kind |-> "vulnerability"]
    /\ UNCHANGED <<simVars, nodes, connections, simulation_stats, net_pc, num_nodes,
                   loop_i, node_list, draws,
                   nodes_before>>

NodeRecordAttack(o, attack_type, success) ==
    /\ net_pc = "idle"
    /\ CallAllowed("node")
    /\ net_calls' = [net_calls EXCEPT !.node = @ + 1]
    /\ node' = [node EXCEPT ![o] = record_attack(@, attack_type, success)]
    /\ net_result' = [kind |-> "recorded"]
    /\ UNCHANGED <<simVars, nodes, connections, simulation_stats, net_pc, num_nodes,
                   loop_i, node_list, draws,
                   nodes_before>>

\* a direct call of _calculate_attack_success(attack_type, node)
CalculateAttackSuccess(o, attack_type) ==
    /\ net_pc = "idle"
    /\ net_result' = [kind |-> "probability", attack_type |-> attack_type, obj |-> o,
                      success_probability |->
                          _calculate_attack_success(attack_type, node[o])]
    /\ UNCHANGED <<simVars, node, nodes, connections, simulation_stats, net_pc, num_nodes,
                   loop_i, node_list, net_calls, draws,
                   nodes_before>>

\* ---- the NetworkSimulator's callers ----

CreateNetwork ==
    \/ \E n \in draws.sizes : CreateCall(n)
    \/ CreateNode
    \/ CreateConnections
    \/ SpanConnect
    \/ ExtraConnect
    \/ CreateReturn
Attack == \E a \in draws.attacks, t \in draws.targets : SimulateAttack(a, t)

\* building and resetting the topology, every draw of _create_connections followed
NextTopology == CreateNetwork \/ ResetNetwork

TopologyDraws ==
    [sizes |-> 0..MaxNodes, kinds |-> {NodeDraw("user", 5000, 0)},
     span |-> "any", pairs |-> "any", attacks |-> {}, targets |-> {},
     calls |-> [create |-> 1, attack |-> 0, reset |-> 1, node |-> 0], total |-> 2]
\* a network past the limit of line 138, built as a chain
LargeDraws ==
    [TopologyDraws EXCEPT !.sizes = {LargeNetwork}, !.span = "last", !.pairs = "first"]

InitTopology ==
    /\ SimUnused
    /\ InitNetwork
    /\ draws \in {TopologyDraws, LargeDraws}
SpecTopology == InitTopology /\ [][NextTopology]_vars

\* networks of three nodes (the smallest create_network returns) that differ in
\* their nodes, attacked and reset; one order of the draws of _create_connections
NextNetwork == CreateNetwork \/ Attack \/ ResetNetwork

NetworkDraws ==
    [sizes |-> {0, 3},
     kinds |-> {NodeDraw("user", 10000, 0), NodeDraw("server", 1000, 8000)},
     span |-> "last", pairs |-> "first",
     attacks |-> {"exploit", "unknown"},
     targets |-> {NoTarget, <<"user", 1>>, <<"printer", 1>>},
     calls |-> [create |-> MaxCreates, attack |-> MaxAttacks, reset |-> MaxResets,
                node |-> 0],
     total |-> MaxCalls]

InitAttacks ==
    /\ SimUnused
    /\ InitNetwork
    /\ draws = NetworkDraws
SpecNetwork == InitAttacks /\ [][NextNetwork]_vars

\* one NetworkNode built by the caller, given vulnerabilities and attack records,
\* and passed to _calculate_attack_success with every attack type
NodeLevels == {1000, 5000, 10000}       \* security_level: 0.1, 0.5, 1.0
NodeSeverities == {-20000, 1000, 8000}  \* severity: 0.1, 0.8 and a value below 0
AttackTypes == KnownAttacks \cup {"unknown"}

NextNode ==
    \/ \E o \in DOMAIN node, severity \in NodeSeverities : NodeAddVulnerability(o, severity)
    \/ \E o \in DOMAIN node, a \in AttackTypes, success \in BOOLEAN :
         NodeRecordAttack(o, a, success)
    \/ \E o \in DOMAIN node, a \in AttackTypes : CalculateAttackSuccess(o, a)

InitNode ==
    /\ SimUnused
    /\ \E level \in NodeLevels : node = <<NetworkNode(<<"user", 1>>, "user", level)>>
    /\ nodes = <<>>
    /\ connections = <<>>
    /\ simulation_stats = FreshStats
    /\ net_pc = "idle"
    /\ num_nodes = 0
    /\ loop_i = 0
    /\ node_list = <<>>
    /\ net_result = NoReturn
    /\ net_calls = NoCalls
    /\ nodes_before = 0
    /\ draws = [NoDraws EXCEPT !.calls.node = MaxNodeCalls, !.total = MaxNodeCalls]
SpecNode == InitNode /\ [][NextNode]_vars

\* ---- properties ----

Range(f) == {f[x] : x \in DOMAIN f}
Finished(s) == pc[s] \in {"done", "crashed"}

\* C1: the number of campaigns in the running set never exceeds max_concurrent,
\* whatever the interleaving of start, stop and worker steps.
C1_RunningWithinLimit == Cardinality(RunningIds) <= max_concurrent

\* C2: a terminal status is absorbing: once a record is completed, failed or stopped
\* with its end_time written, no step changes its status or its end_time.
C2_TerminalAbsorbing ==
    [][\A o \in Slots :
         (status[o] \in Terminal /\ end_time[o] > 0)
            => (status'[o] = status[o] /\ end_time'[o] = end_time[o])]_vars

\* C3: a campaign for which stop returned True, whose worker has seen the stop flag
\* and has finished, has status stopped.
C3_StoppedStaysStopped ==
    \A o \in stop_true : (o \in flag_seen /\ Finished(o)) => status[o] = "stopped"

\* C4: once status(id) reports a terminal status, no later step makes status(id)
\* report running.
C4_StatusMonotonic ==
    [][\A id \in Ids : StatusOf(id) \in Terminal => StatusOf(id)' # "running"]_vars

\* C5: a stop call made on an id that is unknown, or whose campaign is terminal at
\* the call, returns False (the return of line 333, which changes nothing).
C5_StopFalseOnTerminal ==
    (stop_at_call \in Terminal \cup {"not_found"} /\ stop_pc = "idle")
        => stop_result = "False"

\* C6: a start call that finds the running set at max_concurrent raises the capacity
\* error in that same step, creates no record, leaves both maps unchanged and
\* schedules no worker, then or later.
C6_RejectedStartStep ==
    \A s \in Slots :
      (pc[s] = "idle" /\ pc'[s] # "idle" /\ Cardinality(RunningIds) >= max_concurrent)
         => /\ pc'[s] = "rejected"
            /\ start_result'[s] = "CapacityExceeded"
            /\ UNCHANGED <<regVars, recVars>>
C6_RejectedStaysOut ==
    \A s \in Slots :
      pc[s] = "rejected"
         => /\ pc'[s] = "rejected"
            /\ status'[s] = "none"
            /\ s \notin Range(simulations') \cup Range(running_simulations')
C6_CapacityRejection == [][C6_RejectedStartStep /\ C6_RejectedStaysOut]_vars
C6_Witness == \E s \in Slots : pc[s] = "rejected" /\ Cardinality(RunningIds) >= max_concurrent

\* C7: a campaign started with a callback has had it invoked exactly once when its
\* worker has finished and its status is terminal, and never more than once.
C7_CallbackExactlyOnce ==
    \A o \in Slots :
      /\ cb_calls[o] <= 1
      /\ (request[o].callback # "none" /\ Finished(o) /\ status[o] \in Terminal)
            => cb_calls[o] = 1

\* C8: the step in which a record's callback raises finds the record terminal with
\* its end_time written and its id out of the running set, changes no record and
\* neither map, and ends the worker normally instead of failing the campaign.
C8_CallbackRaiseIsolated ==
    [][\A s \in Slots :
         (pc[s] = "c_callback" /\ pc'[s] # "c_callback"
            /\ request[fin[s]].callback = "raises")
            => /\ status[fin[s]] \in {"completed", "stopped"}
               /\ end_time[fin[s]] > 0
               /\ sim_id[s] \notin RunningIds
               /\ fin[s] \notin Range(running_simulations)
               /\ pc'[s] = "done"
               /\ UNCHANGED <<regVars, recVars>>]_vars

\* C9: a campaign whose stage loop raised ends failed with the captured message and
\* out of the running set.
C9_StageErrorFails ==
    \A s \in Slots :
      (s \in loop_raised /\ Finished(s))
         => /\ status[s] = "failed"
            /\ error[s] = exc[s]
            /\ s \notin Range(running_simulations)

\* C10: every record a reader can see is coherent: attack_success + defense_success
\* = total_events = the number of stage events in the log.
C10_CoherentRecord ==
    \A o \in Slots :
      status[o] # "none"
         => /\ metrics[o].attack_success + metrics[o].defense_success
                 = metrics[o].total_events
            /\ metrics[o].total_events = Len(StageEvents(o))

\* C11: a record whose status is completed, failed or stopped has its end_time
\* set, in every state a concurrent reader can observe.
C11_EndTimeWhenTerminal ==
    \A o \in Slots : status[o] \in Terminal => end_time[o] > 0

\* C12: a start call stores its record under an id no record of the registry
\* has, so line 63 never replaces an existing record.
C12_UniqueIds ==
    [][\A s \in Slots :
         (pc[s] = "create" /\ pc'[s] = "register")
            => simulations[sim_id[s]] = NoRec]_vars

StageOrder ==
    << "reconnaissance", "weaponization", "delivery", "exploitation", "installation",
       "command_control", "actions_objectives" >>
StageCount(attack_type) ==
    IF attack_type = "phishing" THEN 4 ELSE IF attack_type = "malware" THEN 6 ELSE 7
ExpectedStages(s) ==
    SubSeq(StageOrder, 1, StageCount(request[simulation[s]].attack_type))
IsPrefix(a, b) == Len(a) <= Len(b) /\ a = SubSeq(b, 1, Len(a))
LeftLoop(s) == pc[s] = "c_lookup"

\* C13 (as stated): a worker that leaves its stage loop has visited exactly 4 stages
\* of a phishing campaign, 6 of a malware campaign, 7 of any other, in base order.
C13_VisitsExactly ==
    \A s \in Slots : LeftLoop(s) => visited[s] = ExpectedStages(s)

\* C13 (amended): the stages a worker has visited are always the first ones of the
\* 4, 6 or 7 stages of its attack type, in base order, and they are all of them
\* when the loop ends with no break (no stop flag seen, no termination condition).
C13_VisitsPrefix ==
    \A s \in Slots :
      simulation[s] # NoRec
         => /\ IsPrefix(visited[s], ExpectedStages(s))
            /\ (LeftLoop(s) /\ s \notin flag_seen \cup cond_seen)
                  => visited[s] = ExpectedStages(s)
C13_Witness ==
    \E s \in Slots :
      /\ LeftLoop(s) /\ s \notin flag_seen \cup cond_seen
      /\ request[simulation[s]].attack_type = "malware"
      /\ Len(visited[s]) = 6

\* C14: a worker whose post-stage check finds attack_success >= 5, defense_success
\* >= 3 or elapsed > attack_duration executes no further stage, and in every state
\* every record has attack_success <= 5 and defense_success <= 3.
C14_CheckEndsLoop ==
    \A s \in Slots :
      /\ (pc[s] = "w_check" /\ pc'[s] # "w_check")
            => LET m == metrics[simulation[s]]
               IN  (\/ m.attack_success >= 5
                    \/ m.defense_success >= 3
                    \/ elapsed'[s] > attack_duration) => pc'[s] = "c_lookup"
      /\ s \in cond_seen => (visited'[s] = visited[s] \/ visited'[s] = <<>>)
C14_WithinThresholds ==
    \A o \in Slots : metrics[o].attack_success <= 5 /\ metrics[o].defense_success <= 3
C14_Thresholds == [][C14_CheckEndsLoop]_vars /\ []C14_WithinThresholds

\* C15: after a stop call on a record has returned True no worker starts a new
\* stage on that record, at most one more stage event is appended to its log, and
\* once its workers have finished the stage that was in flight is fully recorded
\* (attack_success + defense_success = total_events = stage events in the log).
C15_NoNewStage ==
    \A s \in Slots :
      (pc[s] = "w_loop" /\ pc'[s] = "w_exec") => simulation[s] \notin stop_true
C15_OneMoreEvent ==
    \A o \in stop_true : Len(StageEvents(o)) <= stop_len[o] + 1
C15_InFlightRecorded ==
    \A o \in stop_true :
      (\A s \in Slots : Finished(s) \/ pc[s] \in {"idle", "rejected", "unused"})
         => /\ metrics[o].attack_success + metrics[o].defense_success
                 = metrics[o].total_events
            /\ metrics[o].total_events = Len(StageEvents(o))
C15_CooperativeStop ==
    [][C15_NoNewStage]_vars /\ [](C15_OneMoreEvent /\ C15_InFlightRecorded)
C15_Witness ==
    \E o \in stop_true : Len(StageEvents(o)) = stop_len[o] + 1 /\ Finished(o)

\* C16: in every state every record's risk_score is in [0, 1] (hundredths: 0..100).
C16_RiskInUnitInterval ==
    \A o \in Slots : metrics[o].risk_score >= 0 /\ metrics[o].risk_score <= 100

\* C17: when a worker has recorded a stage event and updated the metrics (it stands
\* at the check of line 117), its record's risk_score equals attack_success /
\* total_events; and risk_score is 0 in every record whose total_events is 0.
C17_RiskIsRatio ==
    /\ \A s \in Slots :
         pc[s] = "w_check"
            => LET m == metrics[simulation[s]]
               IN  m.risk_score * m.total_events = 100 * m.attack_success
    /\ \A o \in Slots : metrics[o].total_events = 0 => metrics[o].risk_score = 0

IsStage(e) == e.event_type # "alert"
\* the counters after the k-th event of a log, read off the log itself
HighsUpTo(log, k) == Cardinality({i \in 1..k : IsStage(log[i]) /\ log[i].severity = "high"})
StagesUpTo(log, k) == Cardinality({i \in 1..k : IsStage(log[i])})
RatioAbove(log, k) == 10 * HighsUpTo(log, k) > 8 * StagesUpTo(log, k)
BeingRecorded(o) ==
    \E s \in Slots : simulation[s] = o /\ pc[s] \in {"w_total", "w_update"}

\* C18: in every record's log each stage event after which attack_success /
\* total_events > 0.8 is directly followed by one critical alert carrying that score
\* and the threshold, and no alert stands anywhere else.
C18_AlertPerCrossing ==
    \A o \in Slots :
      LET log == events[o]
      IN  \A k \in 1..Len(log) :
            IF IsStage(log[k])
            THEN IF k < Len(log)
                 THEN RatioAbove(log, k) <=> ~IsStage(log[k + 1])
                 ELSE RatioAbove(log, k) => BeingRecorded(o)
            ELSE /\ k > 1 /\ IsStage(log[k - 1])
                 /\ log[k].severity = "critical"
                 /\ log[k].risk_score = <<HighsUpTo(log, k), StagesUpTo(log, k)>>
                 /\ log[k].threshold = 80
C18_Witness ==
    \E o \in Slots :
      /\ Len(events[o]) >= 4
      /\ \E k \in 1..Len(events[o]) : ~IsStage(events[o][k])
      /\ IsStage(events[o][Len(events[o]) - 1]) /\ IsStage(events[o][Len(events[o])])
      /\ ~BeingRecorded(o)

\* C19: under fair scheduling every campaign a start call accepted eventually has a
\* terminal status and is out of the running set, whatever start, stop and
\* clear_simulations calls are made while it runs.
C19_EventuallyTerminal ==
    \A s \in Slots :
      (start_result[s] = "ok")
         ~> (status[s] \in Terminal /\ s \notin Range(running_simulations))

\* C20: a record's event log is append-only: across every step the old log is a
\* prefix of the new one.
C20_AppendOnly ==
    [][\A o \in Slots : IsPrefix(events[o], events'[o])]_vars
\* a log two workers have appended to, alerts included
C20_Witness ==
    \E o \in Slots :
      /\ \E j, k \in 1..Len(events[o]) :
            j < k /\ events[o][j].event_type = "reconnaissance"
                  /\ events[o][k].event_type = "reconnaissance"
      /\ \E k \in 1..Len(events[o]) : ~IsStage(events[o][k])
      /\ Len(events[o]) >= 4

\* ---- properties of simulation/network.py ----

\* the running create_network call was made on a topology without nodes
OnEmptyTopology == nodes_before = 0
\* the last call was a create_network call on such a topology, and it has returned
CreatedFromEmpty ==
    net_pc = "idle" /\ net_result = [kind |-> "network"] /\ nodes_before = 0

\* what C21 promises on return, but for the number of edges
C21_NodesOnReturn ==
    /\ Len(nodes') = num_nodes
    /\ \A j, k \in DOMAIN nodes' : j # k => nodes'[j].node_id # nodes'[k].node_id
    /\ simulation_stats'.total_nodes = num_nodes

\* C21 (as stated): when create_network(n), n >= 1, returns on an empty topology,
\* the topology holds exactly n nodes with pairwise distinct ids, total_nodes is n,
\* and the edge list has at least n-1 and at most min(2n, 50) entries.
C21_CreatePost ==
    [][(CreateReturn /\ num_nodes >= 1 /\ OnEmptyTopology)
         => /\ C21_NodesOnReturn
            /\ Len(connections') >= num_nodes - 1
            /\ Len(connections') <= Min(2 * num_nodes, 50)]_vars

\* C21 (amended): when create_network(n), n >= 1, returns on an empty topology,
\* the topology holds exactly n nodes with pairwise distinct ids, total_nodes is n,
\* and the edge list has exactly max(n-1, min(2n, 50)) entries: at least n-1, and
\* at most min(2n, 50) only while n - 1 <= 50.
C21_CreatePostSpanning ==
    [][(CreateReturn /\ num_nodes >= 1 /\ OnEmptyTopology)
         => /\ C21_NodesOnReturn
            /\ Len(connections') = Max(num_nodes - 1, Min(2 * num_nodes, 50))]_vars

\* create_network(LargeNetwork) has returned with more than 50 edges
C21_Witness ==
    /\ CreatedFromEmpty
    /\ Len(nodes) = LargeNetwork
    /\ Len(connections) = LargeNetwork - 1
    /\ Len(connections) > 50

\* entries j and k of the edge list denote the same unordered pair of node ids
SamePair(j, k) ==
    \/ connections[j] = connections[k]
    \/ connections[j] = <<connections[k][2], connections[k][1]>>

\* C22: after create_network has returned, the edge list contains no self-edge and
\* no two entries that denote the same unordered pair of node ids.
C22_SimpleEdges ==
    (net_pc = "idle" /\ net_result = [kind |-> "network"])
      => /\ \A k \in DOMAIN connections : connections[k][1] # connections[k][2]
         /\ \A j, k \in DOMAIN connections : j # k => ~SamePair(j, k)

\* the node ids one entry of the edge list away from the set S of node ids
EdgeNeighbours(S) ==
    {connections[k][2] : k \in {j \in DOMAIN connections : connections[j][1] \in S}}
    \cup {connections[k][1] : k \in {j \in DOMAIN connections : connections[j][2] \in S}}

\* the node ids reachable from S through entries of the edge list
RECURSIVE ReachableFrom(_)
ReachableFrom(S) ==
    IF EdgeNeighbours(S) \subseteq S THEN S ELSE ReachableFrom(S \cup EdgeNeighbours(S))

\* C23: after create_network(n) has returned on an empty topology, every node is
\* reachable from the first-created node through entries of the edge list,
\* whatever the random choices were.
C23_Connected ==
    (CreatedFromEmpty /\ nodes # <<>>)
      => ReachableFrom({nodes[1].node_id}) = Keys(nodes)

\* create_network(MaxNodes) has returned on an empty topology
C23_Witness ==
    /\ CreatedFromEmpty
    /\ Len(nodes) = MaxNodes
    /\ Len(connections) = 2 * MaxNodes
    /\ ReachableFrom({nodes[1].node_id}) = Keys(nodes)

\* C24: a simulate_attack call on a topology with no nodes (never created, or after
\* reset_network) fails with the precondition error (ValueError) and changes
\* nothing: the nodes, the edges and every entry of the stats keep their values.
C24_NoNetworkAttack ==
    [][(Attack /\ nodes = <<>>)
         => /\ net_result' = Raised("ValueError")
            /\ UNCHANGED <<node, nodes, connections, simulation_stats>>]_vars

\* simulate_attack has raised the precondition error after a network of three
\* nodes was created and reset
C24_Witness ==
    /\ net_result = Raised("ValueError")
    /\ nodes = <<>>
    /\ nodes_before = 3
    /\ net_calls.create = 1
    /\ net_calls.reset = 1
    /\ simulation_stats = FreshStats

\* the simulate_attack call of this step succeeded against the object o
HitBy(o) ==
    /\ net_result'.kind = "attack"
    /\ net_result'.success
    /\ DictGet(nodes, net_result'.target_node) = o

\* C25: a node's compromised flag is one-way under simulate_attack: a call leaves
\* every node's flag as it was, except that a successful attack sets the flag of
\* its target; so failed attacks never set it and no call clears it.
C25_CompromisedOneWay ==
    [][Attack
         => /\ DOMAIN node' = DOMAIN node
            /\ nodes' = nodes
            /\ \A o \in DOMAIN node :
                 node'[o].is_compromised = (node[o].is_compromised \/ HitBy(o))]_vars

\* a node was compromised by one attack and has then withstood another
C25_Witness ==
    \E o \in DOMAIN node :
      /\ node[o].is_compromised
      /\ Len(node[o].attack_history) = 2
      /\ node[o].attack_history[1].success
      /\ ~node[o].attack_history[2].success

InUnitRate(p) == 500 <= p /\ p <= 9500

\* C26: for every attack type, known or unknown, and every node state (any
\* security_level in [0.1, 1.0], any list of vulnerabilities, compromised or not)
\* the success probability _calculate_attack_success computes is in [0.05, 0.95].
C26_ProbabilityBounded ==
    /\ \A o \in DOMAIN node, a \in AttackTypes :
         InUnitRate(_calculate_attack_success(a, node[o]))
    /\ net_result.kind = "probability" => InUnitRate(net_result.success_probability)

\* the call returned 0.95 for a compromised node with two vulnerabilities, whose
\* rate before line 237 is above 0.95
C26_Witness ==
    /\ net_result.kind = "probability"
    /\ net_result.success_probability = 9500
    /\ node[net_result.obj].is_compromised
    /\ node[net_result.obj].vulnerabilities = <<8000, 8000>>

\* C27: integrity() is in [0, 1] in every state reachable by create_network,
\* simulate_attack and reset_network calls, and is 1.0 whenever the topology has
\* no nodes.
C27_IntegrityInRange ==
    LET integrity == _calculate_network_integrity(nodes, node)
    IN  /\ 0 <= integrity
        /\ integrity <= 10000
        /\ nodes = <<>> => integrity = 10000

\* an attacked network whose integrity is 0 only through the max of line 253
C27_Witness ==
    /\ net_result.kind = "attack"
    /\ nodes # <<>>
    /\ _calculate_network_integrity(nodes, node) = 0
    /\ IntegrityUnfloored(nodes, node) < 0

\* C28: no stale integrity is reported: once a create_network, simulate_attack or
\* reset_network call is over, the network_integrity held in the stats, and the
\* one in the stats simulate_attack returned, equal integrity() computed from the
\* current node states.
C28_IntegrityFresh ==
    net_pc = "idle"
      => /\ simulation_stats.network_integrity = _calculate_network_integrity(nodes, node)
         /\ net_result.kind = "attack"
              => net_result.network_stats.network_integrity
                   = _calculate_network_integrity(nodes, node)

\* a successful attack has lowered the integrity the stats hold
C28_Witness ==
    /\ net_pc = "idle"
    /\ net_result.kind = "attack"
    /\ net_result.success
    /\ simulation_stats.compromised_nodes = 1
    /\ simulation_stats.network_integrity > 0
    /\ simulation_stats.network_integrity < 5000

\* the state of a NetworkSimulator as __init__ leaves it
FreshNetwork ==
    /\ node = <<>>
    /\ nodes = <<>>
    /\ connections = <<>>
    /\ simulation_stats = FreshStats

\* C29: reset_network resets the topology wholesale from any state: afterwards
\* there are no nodes and no edges, the four counters are 0 and network_integrity
\* is 1.0, as in a freshly constructed simulator; a reset of such a state changes
\* nothing.
C29_ResetWholesale ==
    [][ResetNetwork
         => /\ nodes' = <<>>
            /\ connections' = <<>>
            /\ node' = <<>>
            /\ simulation_stats' = FreshStats
            /\ FreshNetwork => UNCHANGED <<node, nodes, connections, simulation_stats>>]_vars

\* reset_network has emptied a network of three nodes that had been attacked
C29_Witness ==
    /\ net_result = [kind |-> "reset"]
    /\ nodes_before = 3
    /\ net_calls.attack = 1
    /\ FreshNetwork

\* the pairs <<a, b>> of attack types where a has the larger modifier (219-226)
LargerModifier ==
    {<<"exploit", "social_engineering">>, <<"exploit", "phishing">>,
     <<"exploit", "unknown">>, <<"exploit", "brute_force">>,
     <<"social_engineering", "phishing">>, <<"social_engineering", "unknown">>,
     <<"social_engineering", "brute_force">>, <<"phishing", "unknown">>,
     <<"phishing", "brute_force">>, <<"unknown", "brute_force">>}

PositiveSeverities == {x \in NodeSeverities : x > 0}

\* the node as it was before its last vulnerability was added
BeforeLastVulnerability(n) ==
    [n EXCEPT !.vulnerabilities = SubSeq(@, 1, Len(@) - 1)]

WorkersAt(o, places) == {s \in Slots : simulation[s] = o /\ pc[s] \in places}

\* the stage events of record o's log with the given severity
StageEventsOf(o, severity) ==
    {i \in DOMAIN events[o] : IsStage(events[o][i]) /\ events[o][i].severity = severity}

\* the stage worker s has just executed came out as the two draws say
C32_OutcomeAsDrawn ==
    \A s \in Slots :
      pc[s] = "w_append" =>
        LET res == stage_result[s]
            rate == Stages(s)[stage_idx[s]].success_rate
            modifier == _calculate_defense_modifier(request[simulation[s]].defenses.names)
        IN  /\ res.success <=> /\ Len(res.randoms) = 2
                               /\ res.randoms[1] < rate
                               /\ res.randoms[2] > modifier
            /\ res.severity = IF res.success THEN "high" ELSE "medium"

\* _execute_stage adds one to one counter, line 111 adds one to total_events
C32_OneCounterStep ==
    \A s \in Slots :
      LET o == simulation[s]
      IN  /\ pc[s] = "w_exec" /\ pc'[s] = "w_append" =>
               metrics'[o] = IF stage_result'[s].success
                             THEN [metrics[o] EXCEPT !.attack_success = @ + 1]
                             ELSE [metrics[o] EXCEPT !.defense_success = @ + 1]
          /\ pc[s] = "w_append" =>
               /\ pc'[s] \in {"w_append", "w_total"}
               /\ pc'[s] = "w_total" =>
                    events'[o] = Append(events[o], [event_type |-> stage_result[s].name,
                                                    severity |-> stage_result[s].severity])
          /\ pc[s] = "w_total" =>
               /\ pc'[s] \in {"w_total", "w_update"}
               /\ pc'[s] = "w_update" =>
                    metrics'[o] = [metrics[o] EXCEPT !.total_events = @ + 1]

\* the counters of a record add up: every executed stage is in exactly one of
\* attack_success and defense_success, in total_events once line 111 has run, and
\* in the log with its severity once line 110 has run
C32_CountersAddUp ==
    \A o \in Slots :
      LET pending(success) ==
              Cardinality({s \in WorkersAt(o, {"w_append"}) : stage_result[s].success = success})
      IN  /\ metrics[o].attack_success + metrics[o].defense_success
               = metrics[o].total_events
                 + Cardinality(WorkersAt(o, {"w_append", "w_total"}))
          /\ metrics[o].attack_success
               = Cardinality(StageEventsOf(o, "high")) + pending(TRUE)
          /\ metrics[o].defense_success
               = Cardinality(StageEventsOf(o, "medium")) + pending(FALSE)

\* C32: each executed stage increments exactly one of attack_success and
\* defense_success by one and total_events by one; it counts as an attack success
\* (high-severity event) iff the attempt draw is below the stage's success rate and
\* the second draw is strictly greater than the defense modifier, and otherwise as
\* a defense success (medium-severity event).
C32_StageCounted ==
    /\ []C32_OutcomeAsDrawn
    /\ [][C32_OneCounterStep]_vars
    /\ []C32_CountersAddUp

\* a campaign with the defenses firewall and mfa (modifier 0.5) has counted an
\* attack success, and its worker has just executed a stage whose attempt passed
\* and whose second draw was exactly 0.5: a defense success
C32_Witness ==
    \E s \in Slots :
      /\ pc[s] = "w_append"
      /\ request[simulation[s]].defenses = GoodDefenses
      /\ stage_result[s].randoms = <<50, 50>>
      /\ ~stage_result[s].success
      /\ metrics[simulation[s]].attack_success >= 1
      /\ metrics[simulation[s]].defense_success >= 1
      /\ metrics[simulation[s]].total_events >= 1

\* ---- C33 ----

\* C33: create_network(n) terminates for every n >= 0, in particular for n = 1
\* and n = 2, when every pair of nodes is eventually drawn.  Each draw that passes
\* line 144 adds an entry and the loop of line 140 ends at max_connections
\* entries, so the call terminates under such draws exactly when the loop, while
\* its condition holds, always has a pair left that passes line 144.
C33_LoopCanEnd ==
    (net_pc = "extra" /\ Len(connections) < max_connections(node_list)) =>
      \E p \in (DOMAIN node_list) \X (DOMAIN node_list) : Connectable(p)

\* ---- C34 ----

\* the stop call that found its id in the running set (line 323) returns or raises
StopLeaves == stop_pc \in {"get", "status", "end", "del"} /\ stop_pc' = "idle"

\* C34: stop(id) on a running campaign returns true, sets its status to stopped
\* and removes its id from the running set before returning; a second stop(id) on
\* the same id then returns false.
C34_StopOnRunning ==
    [][/\ (StopLeaves /\ stop_at_call = "running") =>
            /\ stop_result' = "True"
            /\ status'[stop_sim] = "stopped"
            /\ stop_id \notin RunningIds'
       /\ \A id \in Ids :
            (StopCheck(id) /\ simulations[id] \in stop_true) => stop_result' = "False"]_vars

\* ---- C35 ----

\* the simulate_attack call of this step returned a result for target object t
AttackedObject(t) ==
    /\ Attack
    /\ net_result'.kind = "attack"
    /\ \E k \in DOMAIN nodes :
         nodes[k].node_id = net_result'.target_node /\ nodes[k].obj = t

\* C35: a simulate_attack call on target t appends exactly one record to t's
\* attack_history and increments total_attacks by one, and leaves unchanged the
\* node set, the edge set, and every other node's attack_history,
\* vulnerabilities, security_level and compromised flag; a failed attack
\* additionally leaves t's compromised flag, compromised_nodes and
\* network_integrity unchanged, both as held in the stats and as get_network_stats
\* computes them.
C35_AttackFrame ==
    [][\A t \in DOMAIN node :
         AttackedObject(t) =>
           /\ node'[t].attack_history =
                Append(node[t].attack_history,
                       [type |-> net_result'.attack_type, success |-> net_result'.success])
           /\ simulation_stats'.total_attacks = simulation_stats.total_attacks + 1
           /\ nodes' = nodes
           /\ DOMAIN node' = DOMAIN node
           /\ connections' = connections
           /\ \A o \in DOMAIN node \ {t} :
                /\ node'[o].attack_history = node[o].attack_history
                /\ node'[o].vulnerabilities = node[o].vulnerabilities
                /\ node'[o].security_level = node[o].security_level
                /\ node'[o].is_compromised = node[o].is_compromised
           /\ ~net_result'.success =>
                /\ node'[t].is_compromised = node[t].is_compromised
                /\ simulation_stats'.compromised_nodes = simulation_stats.compromised_nodes
                /\ simulation_stats'.network_integrity
                     = simulation_stats.network_integrity
                /\ CompromisedCount(nodes', node') = CompromisedCount(nodes, node)
                /\ _calculate_network_integrity(nodes', node')
                     = _calculate_network_integrity(nodes, node)]_vars

\* the second attack on a network of three nodes has failed, on a node other than
\* the first of the dict, after the first attack compromised a node
C35_Witness ==
    /\ net_result.kind = "attack"
    /\ ~net_result.success
    /\ simulation_stats.total_attacks = 2
    /\ simulation_stats.compromised_nodes = 1
    /\ Len(nodes) = 3
    /\ net_result.target_node # nodes[1].node_id
    /\ \E k \in DOMAIN nodes :
         /\ nodes[k].node_id = net_result.target_node
         /\ Len(node[nodes[k].obj].attack_history) >= 1

\* ---- C36 ----

\* C36: in every reachable state, after any sequence of start, stop, worker steps
\* and clear_simulations, the running set is consistent with the campaign map:
\* every id in the running set is a key of the campaign map, and a campaign is in
\* the running set only if its status is running.
C36_RunningConsistent ==
    \A id \in RunningIds :
      /\ simulations[id] # NoRec
      /\ status[running_simulations[id]] = "running"

\* ---- C37 ----

\* the places of _run_simulation from the start of the thread to the end of its
\* stage loop (lines 82-121), the sleep between two stages included
InStageLoop ==
    {"w_begin", "w_loop", "w_exec", "w_append", "w_total", "w_update", "w_check"}

\* the workers that have been scheduled and have not yet left their stage loop
LoopWorkers == {s \in Slots : pc[s] \in InStageLoop}

\* C37: at any time the number of campaign workers that have been scheduled and
\* have not yet left their stage loop is at most max_concurrent; in particular a
\* stop(id) followed by a start does not let more than max_concurrent workers
\* execute or wait between stages at once.
C37_WorkersWithinLimit == Cardinality(LoopWorkers) <= max_concurrent

\* ---- C38 ----

\* C38: stop(id) always returns a boolean and never raises, for every id and under
\* every interleaving with that campaign's worker, including when the worker
\* finalizes the campaign and removes it from the running set between stop's
\* membership check and stop's own removal.
C38_StopReturnsBoolean ==
    stop_pc = "idle" => stop_result \in {"none", "True", "False"}

\* ---- C39 ----

\* C39: whenever a campaign's completion callback is invoked, that campaign
\* already has a terminal status and an end_time, and its id is no longer in the
\* running set, so a start issued from inside the callback sees the freed
\* capacity slot.
C39_CallbackAfterRelease ==
    \A s \in Slots :
      (pc[s] = "c_callback" /\ request[fin[s]].callback # "none") =>
        /\ status[fin[s]] \in Terminal
        /\ end_time[fin[s]] > 0
        /\ sim_id[s] \notin RunningIds

====
